---- MODULE Spec2Model ----
(***************************************************************************)
(* A model of the Ollama provider client of Plexus                         *)
(* (src/src/model_providers/ollama/provider.py): the connection lifecycle  *)
(* (initialize / close), the request operations and the stream decoder of  *)
(* the chat, completion and pull endpoints.                                *)
(*                                                                         *)
(* The provider runs on asyncio: a coroutine runs without interruption     *)
(* between two awaits.  A step of the model is one such stretch of code.   *)
(* The transport (aiohttp) and the server are the environment: what they   *)
(* answer is chosen with \E from the sets below.                           *)
(***************************************************************************)
EXTENDS Naturals, Integers, Sequences, FiniteSets, TLC

(***************************************************************************)
(* Bounds of the model.                                                    *)
(***************************************************************************)
\* connection handles (aiohttp.ClientSession objects) one provider may create
MaxHandles == 2
\* lines the server sends on one streaming response body
MaxLines == 3
\* messages of a chat request, texts of an embedding request
MaxItems == 2
\* embedding vectors a response may carry beyond the number of texts asked for
MaxExtra == 1
\* keys of the JSON object of a configuration file
MaxKeys == 2
\* the largest max_retries handed to retry_with_exponential_backoff
MaxRetries == 2
\* the largest base_delay and max_delay handed to it, in seconds
MaxDelay == 3

\* the longest text given to chunk_text_for_embeddings, in characters
MaxText == 6

\* the largest max_chunk_size
MaxChunk == 5

\* the largest overlap
MaxOverlap == 5

(***************************************************************************)
(* Values.                                                                 *)
(***************************************************************************)
\* self.session is None
None == 0

\* the coroutines (asyncio tasks) that call the provider
Tasks == {"t1", "t2"}

\* the task of a program that awaits each call before it makes the next
Main == "t1"

\* what the transport does with one request: a 200 response, a response with
\* another status, aiohttp.ClientError, asyncio.TimeoutError (the total
\* timeout of ClientTimeout), a 200 response whose body is not JSON
Responses == {"ok", "http_error", "client_error", "timeout", "bad_json"}

\* the i-th line of a newline-delimited JSON body, as response.content yields
\* it: an empty line, a line of text that is not JSON ("malformed"), a line
\* whose bytes are not UTF-8 ("undecodable": a line cut inside a multi-byte
\* character, for one), or a JSON object with its "done" flag and its text
\* field (message.content or response).  The text of the i-th line is named
\* i, so that every text of a body is told apart from the others.
Lines(i) ==
    {[k |-> "empty", done |-> FALSE, text |-> 0],
     [k |-> "malformed", done |-> FALSE, text |-> 0],
     [k |-> "undecodable", done |-> FALSE, text |-> 0]}
    \cup [k : {"data"}, done : BOOLEAN, text : {i}]

\* metadata = None of a StreamChunk; a metadata mapping has its keys and the
\* line whose fields are its values
NoMetadata == [present |-> FALSE, keys |-> {}, line |-> 0]

\* no generator object
NoGen == [st |-> "none", kind |-> "none", h |-> None, wire |-> <<>>, chunks |-> <<>>]

\* a task that is not inside a call
IdlePc == [at |-> "idle", h |-> None, requests |-> 0, resp |-> "none"]

\* no exception object, no result (last_exception = None)
Nothing == [cls |-> "none", attempt |-> 0]

\* no call of retry_with_exponential_backoff has been made
NoRetry ==
    [at |-> "idle", max_retries |-> 0, base_delay |-> 0, max_delay |-> 0,
     attempt |-> 0, last_exception |-> Nothing, log |-> <<>>,
     outcome |-> "none", value |-> Nothing]

\* Python values of the configuration: a str, or a number (int or float),
\* which may be the float nan.  default_temperature and default_top_p are
\* counted in tenths (7 is 0.7), the other numbers in units.
Str(s) == [t |-> "str", s |-> s, nan |-> FALSE, v |-> 0]

Num(i) == [t |-> "num", s |-> "", nan |-> FALSE, v |-> i]

NaN == [t |-> "num", s |-> "", nan |-> TRUE, v |-> 0]

\* the field defaults of the dataclass OllamaConfig; attrs holds the names of
\* the attributes set on the instance that are no fields
DefaultConfig ==
    [base_url |-> Str("http://localhost:11434"),
     timeout |-> Num(300),
     keep_alive |-> Str("5m"),
     max_retries |-> Num(3),
     retry_delay |-> Num(1),
     default_temperature |-> Num(7),
     default_top_p |-> Num(9),
     attrs |-> {}]

\* no configuration file: config_path is None or names no file
NoFile == [kind |-> "none", items |-> <<>>]

\* no OllamaConfig has been constructed
NoCfg ==
    [at |-> "idle", path |-> "none", config |-> DefaultConfig, base |-> DefaultConfig,
     file |-> NoFile, exc |-> "none", named |-> "none"]

\* base_url, timeout and keep_alive of a provider made with an empty config
DefaultSettings ==
    [base_url |-> "http://localhost:11434", timeout |-> 300, keep_alive |-> "5m"]

\* a keyword argument of ModelParameters(...): passed with a value, or not
Passed(v) == [passed |-> TRUE, v |-> v]

NotPassed(v) == [passed |-> FALSE, v |-> v]

\* Optional[int]: None, or an int
NoInt == [some |-> FALSE, v |-> 0]

SomeInt(v) == [some |-> TRUE, v |-> v]

\* Optional[List[str]]: None, or a list
NoList == [some |-> FALSE, v |-> <<>>]

SomeList(v) == [some |-> TRUE, v |-> v]

\* a dict with no key
NoKeys == [k \in {} |-> 0]

\* ModelParameters(): no keyword argument passed
NoKwargs ==
    [temperature |-> NotPassed(0), top_p |-> NotPassed(0), top_k |-> NotPassed(NoInt),
     seed |-> NotPassed(NoInt), stop_sequences |-> NotPassed(NoList), stream |-> TRUE,
     extra_params |-> {}]

\* no payload has been built
NoReq ==
    [at |-> "idle", op |-> "none", messages |-> <<>>, kw |-> NoKwargs,
     params |-> NoKwargs, payload |-> NoKeys]

\* no call of chunk_text_for_embeddings has been made
NoChunker ==
    [at |-> "idle", text |-> <<>>, max_chunk_size |-> 0, overlap |-> 0,
     start |-> 0, chunks |-> <<>>, iterations |-> 0]

VARIABLES
    session,        \* self.session: None or the handle the provider references
    is_available,   \* self.is_available
    handles,        \* handles[h]: how often ClientSession.close() ran on handle h
    pc,             \* pc[t]: where task t stands inside a call
    gen,            \* the async generator the last streaming call returned
    last,           \* the call that completed last: its arguments and outcome
    retry,          \* the call of retry_with_exponential_backoff in progress
    cfg,            \* the OllamaConfig under construction or validation
    settings,       \* self.base_url, self.timeout, self.keep_alive
    req,            \* the request payload generate_chat / generate_completion built
    chunker         \* the call of chunk_text_for_embeddings in progress

vars == <<session, is_available, handles, pc, gen, last, retry, cfg, settings, req, chunker>>

(***************************************************************************)
(* The record of a completed call.                                         *)
(*   op        the method                                                  *)
(*   n         the size of its argument (messages, prompt, texts)          *)
(*   exc       the exception it raised, "none" if it returned              *)
(*   val       what it returned                                            *)
(*   requests  the requests it handed to the transport                     *)
(*   resp      what the transport answered                                 *)
(*   body      the embedding vectors of the response                       *)
(*   ret       the embedding vectors returned                              *)
(*   h         the handle the call created                                 *)
(*   again     whether the call is a close() that follows a close()       *)
(***************************************************************************)
Outcome(op, n, exc, val, requests, resp) ==
    [op |-> op, n |-> n, exc |-> exc, val |-> val, requests |-> requests,
     resp |-> resp, body |-> <<>>, ret |-> <<>>, h |-> None, again |-> FALSE]

Init ==
    /\ session = None
    /\ is_available = FALSE
    /\ handles = <<>>
    /\ pc = [t \in Tasks |-> IdlePc]
    /\ gen = NoGen
    /\ last = Outcome("__init__", 0, "none", "none", 0, "none")
    /\ retry = NoRetry
    /\ cfg = NoCfg
    /\ settings = DefaultSettings
    /\ req = NoReq
    /\ chunker = NoChunker

Idle(t) == pc[t].at = "idle"

Quiescent == \A t \in Tasks : Idle(t)

\* the task returns from its call with outcome o
Return(t, o) ==
    /\ pc' = [pc EXCEPT ![t] = IdlePc]
    /\ last' = [o EXCEPT !.again = (o.op = "close" /\ last.op = "close")]

\* ClientSession.close() on handle h
CloseHandle(h) == [handles EXCEPT ![h] = @ + 1]

Closed(h) == handles[h] > 0

(***************************************************************************)
(* The transport.                                                          *)
(***************************************************************************)
\* what the transport may do with a request made on handle h: a closed
\* ClientSession refuses every request with RuntimeError("Session is closed")
Transport(h) == IF Closed(h) THEN {"session_closed"} ELSE Responses

\* what a task that handed a request to the transport on handle h, open at
\* that time, finds when it resumes: the answer that arrived, or, when another
\* task has closed the handle since, the failure of the closed connection
Answer(h) == Responses \cup Transport(h)

\* how a request that parses one JSON body ends ("none": it returns): a
\* status other than 200 raises RuntimeError, aiohttp.ClientError is caught
\* and raised again as RuntimeError, nothing else is caught
BufferedExc(resp) ==
    CASE resp = "ok" -> "none"
      [] resp = "http_error" -> "RuntimeError"
      [] resp = "client_error" -> "RuntimeError"
      [] resp = "session_closed" -> "RuntimeError"
      [] resp = "timeout" -> "TimeoutError"
      [] resp = "bad_json" -> "JSONDecodeError"

\* the request of a buffered operation and the handling of its answer
Buffered(t, op, n, val) ==
    \E resp \in Transport(session) :
        Return(t, Outcome(op, n, BufferedExc(resp),
                          IF BufferedExc(resp) = "none" THEN val ELSE "none", 1, resp))

\* raise RuntimeError("Provider not initialized")
NotInitialized(t, op, n) ==
    Return(t, Outcome(op, n, "RuntimeError", "none", 0, "none"))

\* a faulty variant of EmptyArgument: the argument is checked after the request
EmptyArgumentAfterRequest(t, op) ==
    Return(t, Outcome(op, 0, "ValueError", "none", 1, "ok"))

\* raise ValueError(... cannot be empty)
EmptyArgument(t, op) ==
    Return(t, Outcome(op, 0, "ValueError", "none", 0, "none"))

(***************************************************************************)
(* initialize                                                              *)
(***************************************************************************)
\* the except branch of initialize, up to its await of session.close();
\* h is the handle this call created, resp the failure
InitExcept(t, h, resp) ==
    /\ is_available' = FALSE
    /\ UNCHANGED session
    /\ IF session # None
       THEN /\ handles' = CloseHandle(session)
            /\ pc' = [pc EXCEPT ![t] = [at |-> "init_close", h |-> h,
                                        requests |-> pc[t].requests, resp |-> resp]]
            /\ UNCHANGED last
       ELSE /\ Return(t, [Outcome("initialize", 0, "none", "False", pc[t].requests, resp)
                              EXCEPT !.h = h])
            /\ UNCHANGED handles

\* initialize up to the await inside list_models: the session is created and
\* the probe request is handed to the transport
InitBegin(t) ==
    /\ Idle(t)
    /\ UNCHANGED <<settings, retry, cfg, req, chunker>>
    /\ Len(handles) < MaxHandles
    /\ UNCHANGED gen
    /\ \E created \in BOOLEAN :
        IF created
        THEN /\ handles' = Append(handles, 0)
             /\ session' = Len(handles) + 1
             /\ pc' = [pc EXCEPT ![t] = [at |-> "init_probe", h |-> Len(handles) + 1,
                                         requests |-> 1, resp |-> "none"]]
             /\ UNCHANGED <<is_available, last>>
        ELSE InitExcept(t, None, "create_failed")

\* the probe's answer arrives: list_models returns or raises
InitProbe(t) ==
    /\ pc[t].at = "init_probe"
    /\ UNCHANGED <<settings, retry, cfg, req, chunker>>
    /\ UNCHANGED gen
    /\ \E resp \in Answer(pc[t].h) :
        IF BufferedExc(resp) = "none"
        THEN /\ is_available' = TRUE
             /\ Return(t, [Outcome("initialize", 0, "none", "True", pc[t].requests, resp)
                               EXCEPT !.h = pc[t].h])
             /\ UNCHANGED <<session, handles>>
        ELSE InitExcept(t, pc[t].h, resp)

\* a faulty variant of InitCloseDone: the except branch leaves self.session set
InitCloseDoneKeepsSession(t) ==
    /\ pc[t].at = "init_close"
    /\ UNCHANGED <<settings, retry, cfg, req, chunker>>
    /\ Return(t, [Outcome("initialize", 0, "none", "False", pc[t].requests, pc[t].resp)
                      EXCEPT !.h = pc[t].h])
    /\ UNCHANGED <<session, is_available, handles, gen>>

\* session.close() has returned in the except branch
InitCloseDone(t) ==
    /\ pc[t].at = "init_close"
    /\ UNCHANGED <<settings, retry, cfg, req, chunker>>
    /\ session' = None
    /\ Return(t, [Outcome("initialize", 0, "none", "False", pc[t].requests, pc[t].resp)
                      EXCEPT !.h = pc[t].h])
    /\ UNCHANGED <<is_available, handles, gen>>

(***************************************************************************)
(* close                                                                   *)
(***************************************************************************)
\* close up to its await of session.close(), or to its end when there is no
\* session
CloseBegin(t) ==
    /\ Idle(t)
    /\ UNCHANGED <<settings, retry, cfg, req, chunker>>
    /\ UNCHANGED <<session, gen>>
    /\ IF session # None
       THEN /\ handles' = CloseHandle(session)
            /\ pc' = [pc EXCEPT ![t] = [at |-> "close_close", h |-> None,
                                        requests |-> 0, resp |-> "none"]]
            /\ UNCHANGED <<is_available, last>>
       ELSE /\ is_available' = FALSE
            /\ Return(t, Outcome("close", 0, "none", "none", 0, "none"))
            /\ UNCHANGED handles

\* a faulty variant of CloseDone: close() leaves self.session set
CloseDoneKeepsSession(t) ==
    /\ pc[t].at = "close_close"
    /\ UNCHANGED <<settings, retry, cfg, req, chunker>>
    /\ is_available' = FALSE
    /\ Return(t, Outcome("close", 0, "none", "none", 0, "none"))
    /\ UNCHANGED <<session, handles, gen>>

\* session.close() has returned
CloseDone(t) ==
    /\ pc[t].at = "close_close"
    /\ UNCHANGED <<settings, retry, cfg, req, chunker>>
    /\ session' = None
    /\ is_available' = FALSE
    /\ Return(t, Outcome("close", 0, "none", "none", 0, "none"))
    /\ UNCHANGED <<handles, gen>>

(***************************************************************************)
(* The buffered operations.                                                *)
(***************************************************************************)
ListModels(t) ==
    /\ Idle(t)
    /\ UNCHANGED <<settings, retry, cfg, req, chunker>>
    /\ UNCHANGED <<session, is_available, handles, gen>>
    /\ IF session = None
       THEN NotInitialized(t, "list_models", 0)
       ELSE Buffered(t, "list_models", 0, "models")

GetModelInfo(t) ==
    /\ Idle(t)
    /\ UNCHANGED <<settings, retry, cfg, req, chunker>>
    /\ UNCHANGED <<session, is_available, handles, gen>>
    /\ IF session = None
       THEN NotInitialized(t, "get_model_info", 0)
       ELSE Buffered(t, "get_model_info", 0, "info")

ListRunningModels(t) ==
    /\ Idle(t)
    /\ UNCHANGED <<settings, retry, cfg, req, chunker>>
    /\ UNCHANGED <<session, is_available, handles, gen>>
    /\ IF session = None
       THEN NotInitialized(t, "list_running_models", 0)
       ELSE Buffered(t, "list_running_models", 0, "models")

\* delete_model returns whether the status is 200 and returns False on
\* aiohttp.ClientError; it reads no body
DeleteModel(t) ==
    /\ Idle(t)
    /\ UNCHANGED <<settings, retry, cfg, req, chunker>>
    /\ UNCHANGED <<session, is_available, handles, gen>>
    /\ IF session = None
       THEN NotInitialized(t, "delete_model", 0)
       ELSE \E resp \in Transport(session) :
              Return(t, Outcome("delete_model", 0,
                                CASE resp = "timeout" -> "TimeoutError"
                                  [] resp = "session_closed" -> "RuntimeError"
                                  [] OTHER -> "none",
                                CASE resp \in {"ok", "bad_json"} -> "True"
                                  [] resp \in {"http_error", "client_error"} -> "False"
                                  [] OTHER -> "none",
                                1, resp))

(***************************************************************************)
(* is_model_available, health_check (base_provider.py): both await         *)
(* list_models() and turn every Exception it raises into a return value.   *)
(***************************************************************************)
\* the exceptions of list_models are all of class Exception: RuntimeError,
\* asyncio.TimeoutError, json.JSONDecodeError
ListModelsExc(resp) == IF session = None THEN "RuntimeError" ELSE BufferedExc(resp)

\* whether the model is among the names list_models returned
IsModelAvailable(t) ==
    /\ Idle(t)
    /\ UNCHANGED <<settings, retry, cfg, req, chunker>>
    /\ UNCHANGED <<session, is_available, handles, gen>>
    /\ IF session = None
       THEN Return(t, Outcome("is_model_available", 0, "none", "False", 0, "none"))
       ELSE \E resp \in Transport(session), found \in BOOLEAN :
              Return(t, Outcome("is_model_available", 0, "none",
                                IF ListModelsExc(resp) = "none" /\ found
                                THEN "True" ELSE "False",
                                1, resp))

\* a faulty variant of HealthCheck: a failed check marks the provider
\* unavailable
HealthCheckMarksUnavailable(t) ==
    /\ Idle(t)
    /\ UNCHANGED <<settings, retry, cfg, req, chunker>>
    /\ UNCHANGED <<session, handles, gen>>
    /\ IF session = None
       THEN /\ Return(t, Outcome("health_check", 0, "none", "unhealthy", 0, "none"))
            /\ is_available' = FALSE
       ELSE \E resp \in Transport(session) :
              /\ Return(t, Outcome("health_check", 0, "none",
                                   IF ListModelsExc(resp) = "none"
                                   THEN "healthy" ELSE "unhealthy",
                                   1, resp))
              /\ is_available' = (is_available /\ ListModelsExc(resp) = "none")

\* the report says "healthy" when list_models returned, "unhealthy" when it
\* raised
HealthCheck(t) ==
    /\ Idle(t)
    /\ UNCHANGED <<settings, retry, cfg, req, chunker>>
    /\ UNCHANGED <<session, is_available, handles, gen>>
    /\ IF session = None
       THEN Return(t, Outcome("health_check", 0, "none", "unhealthy", 0, "none"))
       ELSE \E resp \in Transport(session) :
              Return(t, Outcome("health_check", 0, "none",
                                IF ListModelsExc(resp) = "none"
                                THEN "healthy" ELSE "unhealthy",
                                1, resp))

(***************************************************************************)
(* generate_embeddings                                                     *)
(***************************************************************************)
\* the JSON object of a 200 response to /api/embed, asked for n texts: the
\* "embeddings" field may be missing, and holds any number m of vectors; the
\* i-th vector of the response is named i
EmbedBodies(n) ==
    {[has |-> FALSE, embeddings |-> <<>>]}
    \cup {[has |-> TRUE, embeddings |-> [i \in 1..m |-> i]] : m \in 0..(n + MaxExtra)}

\* data.get("embeddings", [])
GetEmbeddings(data) == IF data.has THEN data.embeddings ELSE <<>>

\* a faulty variant of CountMismatch: only a response with no vector is refused
CountMismatchOnlyEmpty(embeddings, n) == Len(embeddings) = 0

\* the count guard of generate_embeddings: whether the response is refused
CountMismatch(embeddings, n) == Len(embeddings) # n

\* generate_embeddings on n texts
GenerateEmbeddings(t, n) ==
    /\ Idle(t)
    /\ UNCHANGED <<settings, retry, cfg, req, chunker>>
    /\ UNCHANGED <<session, is_available, handles, gen>>
    /\ IF session = None THEN NotInitialized(t, "generate_embeddings", n)
       ELSE IF n = 0 THEN EmptyArgument(t, "generate_embeddings")
       ELSE \E resp \in Transport(session) :
              IF resp # "ok"
              THEN Return(t, Outcome("generate_embeddings", n, BufferedExc(resp), "none", 1, resp))
              ELSE \E data \in EmbedBodies(n) :
                     LET embeddings == GetEmbeddings(data)
                         o == [Outcome("generate_embeddings", n, "none", "none", 1, resp)
                                   EXCEPT !.body = data.embeddings]
                     IN  IF CountMismatch(embeddings, n)
                         THEN Return(t, [o EXCEPT !.exc = "RuntimeError"])
                         ELSE Return(t, [o EXCEPT !.val = "embeddings", !.ret = embeddings])

(***************************************************************************)
(* generate_chat, generate_completion, pull_model                          *)
(***************************************************************************)
\* a faulty variant of NewGen: the generator handed out is already exhausted
NewGenExhausted(kind) ==
    [st |-> "finished", kind |-> kind, h |-> None, wire |-> <<>>, chunks |-> <<>>]

\* the generator object a streaming call returns: no line of its body has run
NewGen(kind) == [st |-> "new", kind |-> kind, h |-> None, wire |-> <<>>, chunks |-> <<>>]

\* generate_chat / generate_completion on an argument of size n
Generate(t, op, kind, n, stream) ==
    /\ Idle(t)
    /\ UNCHANGED <<settings, retry, cfg, req, chunker>>
    /\ UNCHANGED <<session, is_available, handles>>
    /\ IF session = None THEN NotInitialized(t, op, n) /\ UNCHANGED gen
       ELSE IF n = 0 THEN EmptyArgument(t, op) /\ UNCHANGED gen
       ELSE IF stream
       THEN /\ gen' = NewGen(kind)
            /\ Return(t, Outcome(op, n, "none", "generator", 0, "none"))
       ELSE Buffered(t, op, n, "ModelResponse") /\ UNCHANGED gen

GenerateChat(t, n, stream) ==
    Generate(t, "generate_chat", "chat", n, stream)

GenerateCompletion(t, n, stream) ==
    Generate(t, "generate_completion", "completion", n, stream)

\* pull_model is an async generator function: the call runs none of its body
PullModel(t) ==
    /\ Idle(t)
    /\ UNCHANGED <<settings, retry, cfg, req, chunker>>
    /\ gen' = NewGen("pull")
    /\ Return(t, Outcome("pull_model", 0, "none", "generator", 0, "none"))
    /\ UNCHANGED <<session, is_available, handles>>

(***************************************************************************)
(* The stream decoder: the bodies of _stream_chat_response,                *)
(* _stream_completion_response and pull_model.                             *)
(***************************************************************************)
\* the keys of the metadata of a final chunk
MetadataKeys(kind) ==
    {"created_at", "total_duration", "load_duration", "prompt_eval_count",
     "prompt_eval_duration", "eval_count", "eval_duration"}
    \cup (IF kind = "completion" THEN {"context"} ELSE {})

\* whether the loop body yields for this line: an empty line fails "if line",
\* a line that is not JSON raises JSONDecodeError, which is caught
LineYields(line) == line.k = "data"

\* the exception the loop body lets out for this line ("none": it does not
\* raise): line.decode('utf-8') raises UnicodeDecodeError on bytes that are not
\* UTF-8; it is a ValueError but no JSONDecodeError, and nothing catches it
LineRaises(line) == IF line.k = "undecodable" THEN "UnicodeDecodeError" ELSE "none"

\* a faulty variant of MakeChunk: the text of the line is left out
MakeChunkWithoutText(kind, line) ==
    [content |-> 0,
     is_final |-> line.done,
     metadata |-> IF line.done /\ kind # "pull"
                  THEN [present |-> TRUE, keys |-> MetadataKeys(kind), line |-> line.text]
                  ELSE NoMetadata]

\* a faulty variant of MakeChunk: every chunk is given the metadata mapping
MakeChunkAlwaysMetadata(kind, line) ==
    [content |-> line.text,
     is_final |-> line.done,
     metadata |-> IF kind # "pull"
                  THEN [present |-> TRUE, keys |-> MetadataKeys(kind), line |-> line.text]
                  ELSE NoMetadata]

\* the chunk the loop body yields for a parsed line (pull_model yields the
\* parsed object as it is)
MakeChunk(kind, line) ==
    [content |-> line.text,
     is_final |-> line.done,
     metadata |-> IF line.done /\ kind # "pull"
                  THEN [present |-> TRUE, keys |-> MetadataKeys(kind), line |-> line.text]
                  ELSE NoMetadata]

\* whether the loop goes on after it has yielded the chunk of this line
ContinuesAfter(line) == TRUE

\* a faulty variant of Finish: the generator can be resumed after it raised
FinishLeavesOpen(t, exc, resp) ==
    /\ UNCHANGED gen
    /\ Return(t, Outcome("next", 0, exc, "none", pc[t].requests, resp))

\* the generator ends: it returned (StopAsyncIteration) or raised
Finish(t, exc, resp) ==
    /\ gen' = [gen EXCEPT !.st = "finished"]
    /\ Return(t, Outcome("next", 0, exc, "none", pc[t].requests, resp))

\* how the start of a stream ends when the request does not give a 200
StreamStartExc(resp) ==
    CASE resp = "http_error" -> "RuntimeError"
      [] resp = "client_error" -> "RuntimeError"
      [] resp = "session_closed" -> "RuntimeError"
      [] resp = "timeout" -> "TimeoutError"

\* the first pull of a generator with no session: pull_model checks
\* self.session, the two stream methods call self.session.post on None
NoSessionExc(kind) == IF kind = "pull" THEN "RuntimeError" ELSE "AttributeError"

\* the consumer pulls (__anext__): a new generator runs to its request and on
\* to the first read, a suspended one resumes after its yield, a finished one
\* raises StopAsyncIteration
PullBegin(t) ==
    /\ Idle(t)
    /\ UNCHANGED <<settings, retry, cfg, req, chunker>>
    /\ gen.st # "none"
    /\ UNCHANGED <<session, is_available, handles>>
    /\ CASE gen.st = "finished" ->
              /\ Return(t, Outcome("next", 0, "StopAsyncIteration", "none", 0, "none"))
              /\ UNCHANGED gen
         [] gen.st = "open" ->
              /\ IF ContinuesAfter(gen.wire[Len(gen.wire)])
                 THEN /\ pc' = [pc EXCEPT ![t] = [at |-> "reading", h |-> None,
                                                  requests |-> 0, resp |-> "none"]]
                      /\ UNCHANGED <<gen, last>>
                 ELSE /\ gen' = [gen EXCEPT !.st = "finished"]
                      /\ Return(t, Outcome("next", 0, "StopAsyncIteration", "none", 0, "none"))
         [] gen.st = "new" ->
              IF session = None
              THEN /\ gen' = [gen EXCEPT !.st = "finished"]
                   /\ Return(t, Outcome("next", 0, NoSessionExc(gen.kind), "none", 0, "none"))
              ELSE \E resp \in Transport(session) \ {"bad_json"} :
                     IF resp = "ok"
                     THEN /\ gen' = [gen EXCEPT !.st = "open", !.h = session]
                          /\ pc' = [pc EXCEPT ![t] = [at |-> "reading", h |-> None,
                                                      requests |-> 1, resp |-> "none"]]
                          /\ UNCHANGED last
                     ELSE /\ gen' = [gen EXCEPT !.st = "finished"]
                          /\ Return(t, Outcome("next", 0, StreamStartExc(resp), "none", 1, resp))

\* the generator reads the next line of the body ("async for line in
\* response.content") and runs the loop body on it: the line makes the loop
\* raise (resp "line"), yield, or go on to the next line.  Reading from the
\* response of a handle that has been closed raises aiohttp.ClientError.
ReadLine(t) ==
    /\ pc[t].at = "reading"
    /\ UNCHANGED <<settings, retry, cfg, req, chunker>>
    /\ UNCHANGED <<session, is_available, handles>>
    /\ IF Closed(gen.h)
       THEN Finish(t, "RuntimeError", "client_error")
       ELSE \/ Finish(t, "StopAsyncIteration", "eof")
            \/ Finish(t, "RuntimeError", "client_error")
            \/ Finish(t, "TimeoutError", "timeout")
            \/ /\ Len(gen.wire) < MaxLines
               /\ \E line \in Lines(Len(gen.wire) + 1) :
                    CASE LineRaises(line) # "none" ->
                           /\ gen' = [gen EXCEPT !.wire = Append(@, line), !.st = "finished"]
                           /\ Return(t, Outcome("next", 0, LineRaises(line), "none",
                                                pc[t].requests, "line"))
                      [] LineRaises(line) = "none" /\ LineYields(line) ->
                           /\ gen' = [gen EXCEPT !.wire = Append(@, line),
                                                 !.chunks = Append(@, MakeChunk(gen.kind, line))]
                           /\ Return(t, Outcome("next", 0, "none", "chunk", pc[t].requests, "ok"))
                      [] OTHER ->
                           /\ gen' = [gen EXCEPT !.wire = Append(@, line)]
                           /\ UNCHANGED <<pc, last>>

(***************************************************************************)
(* Spec: a program that awaits each call before it makes the next (one     *)
(* task) and calls every operation, in any order.  It does not pull from   *)
(* the generators it is handed: SpecStream does.                           *)
(***************************************************************************)
Next ==
    \/ InitBegin(Main)
    \/ InitProbe(Main)
    \/ InitCloseDone(Main)
    \/ CloseBegin(Main)
    \/ CloseDone(Main)
    \/ ListModels(Main)
    \/ GetModelInfo(Main)
    \/ ListRunningModels(Main)
    \/ DeleteModel(Main)
    \/ \E n \in 0..MaxItems : GenerateEmbeddings(Main, n)
    \/ \E n \in 0..MaxItems, stream \in BOOLEAN : GenerateChat(Main, n, stream)
    \/ \E n \in 0..MaxItems, stream \in BOOLEAN : GenerateCompletion(Main, n, stream)
    \/ PullModel(Main)

Spec == Init /\ [][Next]_vars

(***************************************************************************)
(* SpecStream: a consumer of streams (one task).  It initializes the       *)
(* provider once, starts streams, pulls from them, and may close the       *)
(* provider at any point between two calls.                                *)
(***************************************************************************)
\* the program's one call of initialize()
InitOnce(t) == handles = <<>> /\ InitBegin(t)

NextStream ==
    \/ InitOnce(Main)
    \/ InitProbe(Main)
    \/ InitCloseDone(Main)
    \/ CloseBegin(Main)
    \/ CloseDone(Main)
    \/ \E n \in 1..MaxItems : GenerateChat(Main, n, TRUE)
    \/ \E n \in 1..MaxItems : GenerateCompletion(Main, n, TRUE)
    \/ PullModel(Main)
    \/ PullBegin(Main)
    \/ ReadLine(Main)

SpecStream == Init /\ [][NextStream]_vars

(***************************************************************************)
(* SpecOps: a program (one task) that calls the operations of the provider *)
(* in any order until one of them hands it a generator; from then on it    *)
(* pulls from the generator, and may close the provider between two pulls. *)
(***************************************************************************)
NextOps ==
    \/ /\ gen.st = "none"
       /\ \/ Next
          \/ IsModelAvailable(Main)
          \/ HealthCheck(Main)
    \/ /\ gen.st # "none"
       /\ \/ PullBegin(Main)
          \/ ReadLine(Main)
          \/ CloseBegin(Main)
          \/ CloseDone(Main)

SpecOps == Init /\ [][NextOps]_vars

(***************************************************************************)
(* SpecConc: tasks that call initialize() and close() on one provider      *)
(* without awaiting each other.  A task is suspended at the await of the   *)
(* probe and at the await of session.close(); the code between two awaits  *)
(* runs as one step.                                                       *)
(***************************************************************************)
NextConc ==
    \E t \in Tasks :
        \/ InitBegin(t)
        \/ InitProbe(t)
        \/ InitCloseDone(t)
        \/ CloseBegin(t)
        \/ CloseDone(t)

SpecConc == Init /\ [][NextConc]_vars

(***************************************************************************)
(* retry_with_exponential_backoff (utils.py).                              *)
(*                                                                         *)
(* retry holds the call in progress:                                       *)
(*   at              "calling": func() is awaited; "sleeping":             *)
(*                   asyncio.sleep(delay) is awaited; "done": it returned  *)
(*                   or raised                                             *)
(*   max_retries, base_delay, max_delay    its arguments                   *)
(*   attempt         the loop variable                                     *)
(*   last_exception  the local of that name                                *)
(*   log             what it did, in order: the attempts at func() (ev     *)
(*                   "call", with their number) and the waits (ev "sleep", *)
(*                   with their delay)                                     *)
(*   outcome, value  "returned" with the result of func(), or "raised"     *)
(*                   with the exception                                    *)
(* A result and an exception of func() carry the number of the attempt     *)
(* that produced them, which tells them apart.                             *)
(***************************************************************************)
ProviderVars == <<settings, session, is_available, handles, pc, gen, last>>

\* the values of max_retries: an int, which may be negative
RetryCounts == (-1)..MaxRetries

\* the values of base_delay and max_delay: durations in seconds
Delays == 0..MaxDelay

\* what one await of func() does: it returns, raises an exception of the
\* classes in `exceptions`, or raises another exception
FuncOutcomes == {"result", "listed", "other"}

\* min(a, b)
Min(a, b) == IF b < a THEN b ELSE a

\* a faulty variant of Delay: the delay is not capped
DelayWithoutCap(base_delay, attempt, max_delay) == base_delay * (2 ^ attempt)

\* delay = min(base_delay * (2 ** attempt), max_delay)
Delay(base_delay, attempt, max_delay) == Min(base_delay * (2 ^ attempt), max_delay)

\* a faulty variant of LastAttempt: the loop gives up one attempt early
LastAttemptOneEarly(attempt, max_retries) == attempt >= max_retries - 1

\* if attempt == max_retries: break
LastAttempt(attempt, max_retries) == attempt = max_retries

\* a faulty variant of Caught: every exception is caught and retried
CaughtWhateverClass(cls) == cls \in {"listed", "other"}

\* except exceptions as e: the clause catches the classes of `exceptions`
Caught(cls) == cls = "listed"

Call(attempt) == [ev |-> "call", attempt |-> attempt, delay |-> 0]

Sleep(attempt, delay) == [ev |-> "sleep", attempt |-> attempt, delay |-> delay]

\* the helper is called: it enters the loop and awaits func(), or, when
\* range(max_retries + 1) is empty, falls through to "raise last_exception"
\* with last_exception = None, which raises TypeError
RetryCall(max_retries, base_delay, max_delay) ==
    /\ retry.at \in {"idle", "done"}
    /\ UNCHANGED <<ProviderVars, cfg, req, chunker>>
    /\ LET r == [NoRetry EXCEPT !.max_retries = max_retries,
                                !.base_delay = base_delay,
                                !.max_delay = max_delay]
       IN  IF max_retries + 1 <= 0
           THEN retry' = [r EXCEPT !.at = "done", !.outcome = "raised",
                                   !.value = [cls |-> "TypeError", attempt |-> 0]]
           ELSE retry' = [r EXCEPT !.at = "calling", !.log = <<Call(0)>>]

\* func() returns or raises
RetryAttempt ==
    /\ retry.at = "calling"
    /\ UNCHANGED <<ProviderVars, cfg, req, chunker>>
    /\ \E r \in FuncOutcomes :
        LET e == [cls |-> r, attempt |-> retry.attempt]
        IN  CASE r = "result" ->
                   retry' = [retry EXCEPT !.at = "done", !.outcome = "returned", !.value = e]
              [] r # "result" /\ ~Caught(r) ->
                   retry' = [retry EXCEPT !.at = "done", !.outcome = "raised", !.value = e]
              [] r # "result" /\ Caught(r) ->
                   IF LastAttempt(retry.attempt, retry.max_retries)
                   THEN retry' = [retry EXCEPT !.at = "done", !.last_exception = e,
                                               !.outcome = "raised", !.value = e]
                   ELSE retry' = [retry EXCEPT
                            !.at = "sleeping", !.last_exception = e,
                            !.log = Append(@, Sleep(retry.attempt,
                                       Delay(retry.base_delay, retry.attempt, retry.max_delay)))]

\* a faulty variant of RetrySleepDone: the helper waits once more before the
\* next iteration awaits func()
RetrySleepDoneWaitsTwice ==
    /\ retry.at = "sleeping"
    /\ UNCHANGED <<ProviderVars, cfg, req, chunker>>
    /\ retry' = [retry EXCEPT !.at = "calling", !.attempt = @ + 1,
                              !.log = retry.log \o <<Sleep(retry.attempt, 0),
                                                     Call(retry.attempt + 1)>>]

\* asyncio.sleep(delay) returns: the next iteration awaits func()
RetrySleepDone ==
    /\ retry.at = "sleeping"
    /\ UNCHANGED <<ProviderVars, cfg, req, chunker>>
    /\ retry' = [retry EXCEPT !.at = "calling", !.attempt = @ + 1,
                              !.log = Append(@, Call(retry.attempt + 1))]

NextRetry ==
    \/ \E max_retries \in RetryCounts, base_delay \in Delays, max_delay \in Delays :
          RetryCall(max_retries, base_delay, max_delay)
    \/ RetryAttempt
    \/ RetrySleepDone

SpecRetry == Init /\ [][NextRetry]_vars

(***************************************************************************)
(* OllamaConfig and load_config (config.py).                               *)
(*                                                                         *)
(* cfg holds the configuration object and how it was made:                 *)
(*   at      "built": constructed, not validated; "done": validate() or    *)
(*           load_config has returned or raised                            *)
(*   path    "construct": OllamaConfig(...) then validate(); "load":       *)
(*           load_config                                                   *)
(*   config  the object's fields                                           *)
(*   base    what from_env() returned (load_config)                        *)
(*   file    the configuration file (load_config)                          *)
(*   exc     the exception raised, "none" if the call returned             *)
(*   named   the field the exception's message names                       *)
(***************************************************************************)
\* the dataclass fields of OllamaConfig the model holds
Fields ==
    {"base_url", "timeout", "keep_alive", "max_retries", "retry_delay",
     "default_temperature", "default_top_p"}

\* methods of OllamaConfig: attributes of the object that are no fields
Methods == {"to_dict", "validate"}

\* hasattr(config, key)
HasAttr(key) == key \in Fields \cup Methods

\* Python's comparisons of numbers: every comparison with nan is False
Lt(a, b) == ~a.nan /\ ~b.nan /\ a.v < b.v

Le(a, b) == ~a.nan /\ ~b.nan /\ a.v <= b.v

\* bool(x): an empty str and the number 0 are false
Truthy(x) == IF x.t = "str" THEN x.s # "" ELSE x.nan \/ x.v # 0

Raise(exc, named) == [exc |-> exc, named |-> named]

\* OllamaConfig.validate: the first check that fails raises ValueError; a
\* comparison of a str with a number raises TypeError; an instance attribute
\* "validate" hides the method, and calling it raises TypeError
Validate(c) ==
    IF "validate" \in c.attrs THEN Raise("TypeError", "validate")
    ELSE IF ~Truthy(c.base_url) THEN Raise("ValueError", "base_url")
    ELSE IF c.timeout.t # "num" THEN Raise("TypeError", "timeout")
    ELSE IF Le(c.timeout, Num(0)) THEN Raise("ValueError", "timeout")
    ELSE IF c.max_retries.t # "num" THEN Raise("TypeError", "max_retries")
    ELSE IF Lt(c.max_retries, Num(0)) THEN Raise("ValueError", "max_retries")
    ELSE IF c.retry_delay.t # "num" THEN Raise("TypeError", "retry_delay")
    ELSE IF Lt(c.retry_delay, Num(0)) THEN Raise("ValueError", "retry_delay")
    ELSE IF c.default_temperature.t # "num" THEN Raise("TypeError", "default_temperature")
    ELSE IF ~(Le(Num(0), c.default_temperature) /\ Le(c.default_temperature, Num(20)))
         THEN Raise("ValueError", "default_temperature")
    ELSE IF c.default_top_p.t # "num" THEN Raise("TypeError", "default_top_p")
    ELSE IF ~(Le(Num(0), c.default_top_p) /\ Le(c.default_top_p, Num(10)))
         THEN Raise("ValueError", "default_top_p")
    ELSE Raise("none", "none")

\* the field values OllamaConfig(...) is constructed with: values of the
\* fields' types, on both sides of every limit validate() checks
Configs ==
    [base_url : {Str(""), Str("http://localhost:11434")},
     timeout : {Num(-1), Num(0), Num(300)},
     keep_alive : {Str("5m")},
     max_retries : {Num(-1), Num(0), Num(3)},
     retry_delay : {Num(-1), Num(0), Num(1), NaN},
     default_temperature : {Num(-1), Num(0), Num(7), Num(20), Num(21), NaN},
     default_top_p : {Num(-1), Num(0), Num(9), Num(10), Num(11), NaN},
     attrs : {{}}]

\* OllamaConfig(base_url=..., ...): the dataclass constructor checks nothing
Construct ==
    /\ cfg.at = "idle"
    /\ UNCHANGED <<ProviderVars, retry, req, chunker>>
    /\ \E c \in Configs :
         cfg' = [cfg EXCEPT !.at = "built", !.path = "construct", !.config = c, !.base = c]

\* config.validate() on the constructed object
ValidateCall ==
    /\ cfg.at = "built"
    /\ UNCHANGED <<ProviderVars, retry, req, chunker>>
    /\ cfg' = [cfg EXCEPT !.at = "done", !.exc = Validate(cfg.config).exc,
                          !.named = Validate(cfg.config).named]

\* an environment variable: not set, or set to a string
Unset == [set |-> FALSE, s |-> ""]

Set(s) == [set |-> TRUE, s |-> s]

\* os.getenv(name, default)
Getenv(var, default) == IF var.set THEN var.s ELSE default

\* the environments load_config runs in: the variables from_env() parses
Envs ==
    [OLLAMA_BASE_URL : {Unset, Set("")},
     OLLAMA_TIMEOUT : {Unset, Set("0"), Set("abc")},
     OLLAMA_MAX_RETRIES : {Unset, Set("-1")},
     OLLAMA_RETRY_DELAY : {Unset, Set("-1"), Set("nan")}]

Parsed(val) == [ok |-> TRUE, val |-> val]

\* int(s) / float(s) raises ValueError
ParseError == [ok |-> FALSE, val |-> Num(0)]

\* int(s) on the strings of the model: a decimal numeral or ValueError
ParseInt(s) ==
    CASE s = "300" -> Parsed(Num(300))
      [] s = "3" -> Parsed(Num(3))
      [] s = "0" -> Parsed(Num(0))
      [] s = "-1" -> Parsed(Num(-1))
      [] OTHER -> ParseError

\* float(s) on the strings of the model: float accepts "nan"
ParseFloat(s) ==
    CASE s = "1.0" -> Parsed(Num(1))
      [] s = "0" -> Parsed(Num(0))
      [] s = "-1" -> Parsed(Num(-1))
      [] s = "nan" -> Parsed(NaN)
      [] OTHER -> ParseError

\* OllamaConfig.from_env: the object, or ValueError out of int() or float()
FromEnv(env) ==
    LET timeout == ParseInt(Getenv(env.OLLAMA_TIMEOUT, "300"))
        max_retries == ParseInt(Getenv(env.OLLAMA_MAX_RETRIES, "3"))
        retry_delay == ParseFloat(Getenv(env.OLLAMA_RETRY_DELAY, "1.0"))
    IN  [ok |-> timeout.ok /\ max_retries.ok /\ retry_delay.ok,
         config |-> [DefaultConfig EXCEPT
                        !.base_url = Str(Getenv(env.OLLAMA_BASE_URL, "http://localhost:11434")),
                        !.timeout = timeout.val,
                        !.max_retries = max_retries.val,
                        !.retry_delay = retry_delay.val]]

Item(key, value) == [key |-> key, value |-> value]

\* the key: value pairs a configuration file may hold: fields with values
\* inside and outside their limits (json.load reads NaN as the float nan), a
\* number written as a string, a key that is no attribute of the object, and
\* keys that name methods of the object
Items ==
    {Item("base_url", Str("")), Item("base_url", Str("http://ollama:11434")),
     Item("timeout", Num(0)), Item("timeout", Num(30)), Item("timeout", Str("30")),
     Item("keep_alive", Str("10m")),
     Item("max_retries", Num(-1)), Item("max_retries", Num(5)),
     Item("retry_delay", Num(2)), Item("retry_delay", NaN),
     Item("default_temperature", Num(30)), Item("default_temperature", Num(5)),
     Item("default_top_p", Num(11)), Item("default_top_p", Num(5)),
     Item("log_level", Str("debug")),
     Item("to_dict", Str("x")), Item("validate", Str("x"))}

\* file_config.items(): the pairs of a JSON object, in the file's order; its
\* keys are distinct
ItemSeqs ==
    {q \in UNION {[1..n -> Items] : n \in 0..MaxKeys} :
        \A i, j \in 1..Len(q) : q[i].key = q[j].key => i = j}

\* the files at config_path: none, one that json.load refuses, a JSON object
Files ==
    {NoFile, [kind |-> "malformed", items |-> <<>>]}
    \cup {[kind |-> "object", items |-> q] : q \in ItemSeqs}

\* setattr(config, key, value): on a name that is no field, the instance gets
\* an attribute of that name, which hides the class's
SetAttr(c, key, value) ==
    IF key \in Fields THEN [c EXCEPT ![key] = value]
    ELSE [c EXCEPT !.attrs = @ \cup {key}]

\* for key, value in file_config.items(): if hasattr(config, key): setattr(...)
RECURSIVE Merge(_, _)
Merge(c, items) ==
    IF items = <<>> THEN c
    ELSE Merge(IF HasAttr(Head(items).key)
               THEN SetAttr(c, Head(items).key, Head(items).value)
               ELSE c,
               Tail(items))

\* load_config(config_path): from_env(), the merge of the file, validate()
LoadConfig ==
    /\ cfg.at = "idle"
    /\ UNCHANGED <<ProviderVars, retry, req, chunker>>
    /\ \E env \in Envs, file \in Files :
        LET fe == FromEnv(env)
            merged == Merge(fe.config, file.items)
            done == [cfg EXCEPT !.at = "done", !.path = "load", !.file = file]
        IN  IF ~fe.ok
            THEN cfg' = [done EXCEPT !.exc = "ValueError", !.named = "env"]
            ELSE IF file.kind = "malformed"
            THEN cfg' = [done EXCEPT !.config = fe.config, !.base = fe.config,
                                     !.exc = "ValueError", !.named = "file"]
            ELSE cfg' = [done EXCEPT !.config = merged, !.base = fe.config,
                                     !.exc = Validate(merged).exc,
                                     !.named = Validate(merged).named]

NextConfig ==
    \/ Construct
    \/ ValidateCall
    \/ LoadConfig

SpecConfig == Init /\ [][NextConfig]_vars

(***************************************************************************)
(* The request payload of generate_chat and generate_completion            *)
(* (provider.py 127-167, 275-302): the stretch of the two methods between  *)
(* their argument checks and their request.                                *)
(*                                                                         *)
(* req holds one call's arguments and the payload built from them:         *)
(*   op        the method                                                  *)
(*   messages  the ChatMessage list (generate_chat)                        *)
(*   kw        the keyword arguments the caller built ModelParameters with *)
(*   params    the ModelParameters object                                  *)
(*   payload   the JSON object handed to the transport                     *)
(***************************************************************************)
\* ModelParameters(...): the dataclass fills the fields the caller did not
\* pass with their defaults (temperature and top_p in tenths)
ModelParameters(kw) ==
    [temperature |-> IF kw.temperature.passed THEN kw.temperature.v ELSE 7,
     top_p |-> IF kw.top_p.passed THEN kw.top_p.v ELSE 9,
     top_k |-> IF kw.top_k.passed THEN kw.top_k.v ELSE NoInt,
     seed |-> IF kw.seed.passed THEN kw.seed.v ELSE NoInt,
     stop_sequences |-> IF kw.stop_sequences.passed THEN kw.stop_sequences.v ELSE NoList,
     stream |-> kw.stream,
     extra_params |-> kw.extra_params]

\* the keyword arguments of the calls of the model: every field passed or
\* not, passed with its default's value or with another
Kwargs ==
    [temperature : {NotPassed(0), Passed(7), Passed(2)},
     top_p : {NotPassed(0), Passed(9), Passed(5)},
     top_k : {NotPassed(NoInt), Passed(SomeInt(40))},
     seed : {NotPassed(NoInt), Passed(SomeInt(0))},
     stop_sequences : {NotPassed(NoList), Passed(SomeList(<<>>)), Passed(SomeList(<<"END">>))},
     stream : BOOLEAN,
     extra_params : {{}, {"num_ctx"}}]

\* MessageRole: the members of the enum
Roles == {"SYSTEM", "USER", "ASSISTANT", "TOOL"}

\* a faulty variant of RoleValue: the tool role goes out as "user"
RoleValueWithoutTool(role) ==
    CASE role = "SYSTEM" -> "system"
      [] role = "USER" -> "user"
      [] role = "ASSISTANT" -> "assistant"
      [] role = "TOOL" -> "user"

\* msg.role.value
RoleValue(role) ==
    CASE role = "SYSTEM" -> "system"
      [] role = "USER" -> "user"
      [] role = "ASSISTANT" -> "assistant"
      [] role = "TOOL" -> "tool"

\* the i-th ChatMessage of a call: its content is named i; images is None
\* (<<>>) or a list
Messages(i) == [role : Roles, content : {i}, images : {<<>>, <<"img">>}]

MessageLists ==
    UNION {{q \in [1..n -> UNION {Messages(i) : i \in 1..n}] :
               \A i \in 1..n : q[i] \in Messages(i)} : n \in 1..MaxItems}

\* the wire form of one message
OllamaMsg(msg) ==
    (IF msg.images # <<>> THEN "images" :> msg.images ELSE NoKeys)
    @@ ("role" :> RoleValue(msg.role)) @@ ("content" :> msg.content)

\* ollama_messages: the loop appends the wire form of each message in turn
RECURSIVE OllamaMessages(_)
OllamaMessages(messages) ==
    IF messages = <<>> THEN <<>>
    ELSE <<OllamaMsg(Head(messages))>> \o OllamaMessages(Tail(messages))

\* options: a field goes in when it differs from the default's value
\* (temperature, top_p), is not None (top_k, seed), is a non-empty list
\* (stop_sequences); options.update(extra_params) comes last
Options(params) ==
    [k \in params.extra_params |-> 0]
    @@ (IF params.temperature # 7 THEN "temperature" :> params.temperature ELSE NoKeys)
    @@ (IF params.top_p # 9 THEN "top_p" :> params.top_p ELSE NoKeys)
    @@ (IF params.top_k.some THEN "top_k" :> params.top_k.v ELSE NoKeys)
    @@ (IF params.seed.some THEN "seed" :> params.seed.v ELSE NoKeys)
    @@ (IF params.stop_sequences.some /\ params.stop_sequences.v # <<>>
        THEN "stop" :> params.stop_sequences.v ELSE NoKeys)

\* payload: "options" is set only when options is not empty
Payload(messages, prompt, params) ==
    [model |-> "m",
     messages |-> OllamaMessages(messages),
     prompt |-> prompt,
     stream |-> params.stream,
     keep_alive |-> settings.keep_alive,
     has_options |-> DOMAIN Options(params) # {},
     options |-> Options(params)]

\* generate_chat builds its payload
BuildChatPayload ==
    /\ req.at = "idle"
    /\ UNCHANGED <<ProviderVars, retry, cfg, chunker>>
    /\ \E messages \in MessageLists, kw \in Kwargs :
         req' = [at |-> "built", op |-> "generate_chat", messages |-> messages, kw |-> kw,
                 params |-> ModelParameters(kw),
                 payload |-> Payload(messages, 0, ModelParameters(kw))]

\* generate_completion builds its payload
BuildCompletionPayload ==
    /\ req.at = "idle"
    /\ UNCHANGED <<ProviderVars, retry, cfg, chunker>>
    /\ \E kw \in Kwargs :
         req' = [at |-> "built", op |-> "generate_completion", messages |-> <<>>, kw |-> kw,
                 params |-> ModelParameters(kw),
                 payload |-> Payload(<<>>, 1, ModelParameters(kw))]

NextPayload ==
    \/ BuildChatPayload
    \/ BuildCompletionPayload

SpecPayload == Init /\ [][NextPayload]_vars

(***************************************************************************)
(* chunk_text_for_embeddings (utils.py).                                   *)
(*                                                                         *)
(* A text is a sequence of characters; positions are counted from 0 as in  *)
(* the code.  chunker holds the call in progress:                          *)
(*   at          "loop": before the test of the while loop; "done": it     *)
(*               has returned                                              *)
(*   text, max_chunk_size, overlap    its arguments                        *)
(*   start       the local of that name                                    *)
(*   chunks      the local of that name; at "done", the list returned      *)
(*   iterations  the iterations of the loop so far                         *)
(***************************************************************************)
\* the characters of a text: a letter, the full stop, the space
Alphabet == {"a", ".", " "}

Texts == UNION {[1..n -> Alphabet] : n \in 0..MaxText}

\* text[start:end]
Slice(text, start, end) == SubSeq(text, start + 1, Min(end, Len(text)))

\* text.rfind(ch, start, end)
RFind(text, ch, start, end) ==
    LET hits == {i \in start..(Min(end, Len(text)) - 1) : text[i + 1] = ch}
    IN  IF hits = {} THEN -1 ELSE CHOOSE i \in hits : \A j \in hits : j <= i

\* s.strip()
Strip(s) ==
    LET kept == {i \in 1..Len(s) : s[i] # " "}
    IN  IF kept = {} THEN <<>>
        ELSE SubSeq(s, CHOOSE i \in kept : \A j \in kept : i <= j,
                       CHOOSE i \in kept : \A j \in kept : j <= i)

\* the end of the chunk that starts at start: start + max_chunk_size, moved
\* back to a sentence end or else to a word boundary when one lies in the
\* second half of the chunk and the chunk is not the last
ChunkEnd(text, start, max_chunk_size) ==
    LET end == start + max_chunk_size
        sentence_end == RFind(text, ".", start, end)
        word_boundary == RFind(text, " ", start, end)
    IN  IF end < Len(text)
        THEN IF sentence_end > start + (max_chunk_size \div 2)
             THEN sentence_end + 1
             ELSE IF word_boundary > start + (max_chunk_size \div 2)
                  THEN word_boundary
                  ELSE end
        ELSE end

\* start = max(start + 1, end - overlap)
NextStart(start, end, overlap) ==
    IF start + 1 >= end - overlap THEN start + 1 ELSE end - overlap

\* the function is called: a text of at most max_chunk_size characters is
\* returned as it is, as the one chunk
ChunkCall(text, max_chunk_size, overlap) ==
    /\ chunker.at = "idle"
    /\ UNCHANGED <<ProviderVars, retry, cfg, req>>
    /\ LET c == [NoChunker EXCEPT !.text = text, !.max_chunk_size = max_chunk_size,
                                  !.overlap = overlap]
       IN  IF Len(text) <= max_chunk_size
           THEN chunker' = [c EXCEPT !.at = "done", !.chunks = <<text>>]
           ELSE chunker' = [c EXCEPT !.at = "loop"]

\* one iteration of "while start < len(text)"
ChunkIterate ==
    /\ chunker.at = "loop"
    /\ chunker.start < Len(chunker.text)
    /\ UNCHANGED <<ProviderVars, retry, cfg, req>>
    /\ LET end == ChunkEnd(chunker.text, chunker.start, chunker.max_chunk_size)
           chunk == Strip(Slice(chunker.text, chunker.start, end))
       IN  chunker' = [chunker EXCEPT
                          !.chunks = IF chunk # <<>> THEN Append(@, chunk) ELSE @,
                          !.start = NextStart(chunker.start, end, chunker.overlap),
                          !.iterations = @ + 1]

\* the loop ends: return chunks
ChunkReturn ==
    /\ chunker.at = "loop"
    /\ ~(chunker.start < Len(chunker.text))
    /\ UNCHANGED <<ProviderVars, retry, cfg, req>>
    /\ chunker' = [chunker EXCEPT !.at = "done"]

NextChunk ==
    \/ /\ chunker.at = "idle"
       /\ \E text \in Texts, max_chunk_size \in 1..MaxChunk, overlap \in 0..MaxOverlap :
            ChunkCall(text, max_chunk_size, overlap)
    \/ ChunkIterate
    \/ ChunkReturn

SpecChunk == Init /\ [][NextChunk]_vars

(***************************************************************************)
(* The claims.                                                             *)
(***************************************************************************)
StreamKinds == {"chat", "completion"}

\* the positions of the final chunks among the chunks produced
Finals == {i \in 1..Len(gen.chunks) : gen.chunks[i].is_final}

\* the positions of the lines read whose "done" flag is true
DoneLines == {i \in 1..Len(gen.wire) : gen.wire[i].k = "data" /\ gen.wire[i].done}

\* C1 (as claimed): in every chat or completion stream, whatever lines the
\* server sends, a chunk with is_final = true is the last chunk produced and
\* every chunk before it has is_final = false; a stream that has ended and
\* whose body held a "done" line has exactly one such chunk.
C1_OneFinalChunkAndItIsLast ==
    gen.kind \in StreamKinds =>
        /\ \A i \in Finals : i = Len(gen.chunks)
        /\ (gen.st = "finished" /\ DoneLines # {}) => Cardinality(Finals) = 1

\* C2 (as claimed): once the stream decoder has parsed a line whose "done"
\* flag is true, it reads no further line of the body: a "done" line is the
\* last line read.
C2_NothingReadAfterDone ==
    gen.kind \in StreamKinds => \A i \in DoneLines : i = Len(gen.wire)

\* C3 (as claimed): after any sequence of initialize() and close() calls,
\* every handle the provider created, other than the one it references, has
\* been closed.
C3_AtMostOneOpenHandle ==
    Quiescent => \A h \in 1..Len(handles) : h # session => Closed(h)

\* the exceptions of the RuntimeError / OllamaError family
ProviderErrors ==
    {"RuntimeError", "OllamaError", "ConnectionError", "ModelNotFoundError",
     "ResponseParsingError"}

\* C4 (as claimed): the pull that follows a close() made while a stream is in
\* progress (its generator returned, started or not, and not yet ended) ends
\* with an error of the RuntimeError / OllamaError family and yields no chunk.
C4_PullAfterCloseRaisesProviderError ==
    [][(/\ last.op = "close"
        /\ gen.st \in {"new", "open"}
        /\ gen.kind \in StreamKinds
        /\ last'.op = "next")
       => last'.exc \in ProviderErrors]_vars

\* the ways initialize() fails
InitFailures == {"create_failed", "http_error", "client_error", "timeout", "bad_json"}

\* C5: for every failure of initialize() (the handle cannot be created, the
\* probe raises, the probe's status is not 200), initialize() returns False
\* and raises nothing, the handle it created is closed, and the provider ends
\* with no handle and is_available = false.
C5_InitializeFailureIsClean ==
    (Quiescent /\ last.op = "initialize") =>
        /\ last.exc = "none"
        /\ last.resp \in InitFailures \cup {"ok"}
        /\ last.resp \in InitFailures =>
              /\ last.val = "False"
              /\ session = None
              /\ ~is_available
              /\ last.h # None => Closed(last.h)

\* C5, its case: a probe answered with a status other than 200, after the
\* handle was created.
C5_Witness ==
    /\ Quiescent
    /\ last.op = "initialize"
    /\ last.resp = "http_error"
    /\ last.h # None
    /\ last.val = "False"

\* C6: close() is idempotent: a close() that follows a close() changes
\* nothing and raises nothing, and no handle is ever closed twice.
C6_CloseIsIdempotent ==
    /\ [](\A h \in 1..Len(handles) : handles[h] <= 1)
    /\ [](last.op = "close" => last.exc = "none")
    /\ [][(Quiescent /\ last.op = "close" /\ Quiescent' /\ last'.op = "close")
          => /\ session' = session
             /\ is_available' = is_available
             /\ handles' = handles
             /\ gen' = gen]_vars

\* C6, its case: close() called again on a provider whose handle a close()
\* has closed.
C6_Witness ==
    /\ Quiescent
    /\ last.op = "close"
    /\ last.again
    /\ \E h \in 1..Len(handles) : handles[h] = 1

\* the operations that make their request, or fail, inside the call
RequestOps ==
    {"list_models", "generate_chat", "generate_completion", "generate_embeddings",
     "delete_model", "get_model_info", "list_running_models"}

\* C7 (as claimed): after a close(), is_available is false and an operation
\* fails with ConnectionError.
C7_AfterCloseConnectionError ==
    [][(Quiescent /\ last.op = "close" /\ Quiescent' /\ last'.op \in RequestOps)
       => (~is_available' /\ last'.exc = "ConnectionError")]_vars

\* C8 (as claimed): on a provider that never had a session, generate_chat and
\* list_models fail with ConnectionError and hand no request to the
\* transport.
C8_UninitializedConnectionError ==
    (Quiescent /\ handles = <<>> /\ last.op \in {"generate_chat", "list_models"})
        => (last.exc = "ConnectionError" /\ last.requests = 0)

\* C9: on an initialized provider, generate_chat with no message,
\* generate_completion with an empty prompt and generate_embeddings with no
\* text fail with a validation error and hand no request to the transport.
C9_EmptyArgumentFailsBeforeRequest ==
    (/\ Quiescent
     /\ session # None
     /\ last.op \in {"generate_chat", "generate_completion", "generate_embeddings"}
     /\ last.n = 0)
        => (last.exc = "ValueError" /\ last.requests = 0)

\* C9, its case: generate_embeddings([]) on a provider that holds a session.
C9_Witness ==
    /\ Quiescent
    /\ session # None
    /\ is_available
    /\ last.op = "generate_embeddings"
    /\ last.n = 0
    /\ last.exc = "ValueError"

\* C10: for n >= 1 texts and a 200 response, generate_embeddings returns the
\* response's vectors, n of them, in the response's order, or, when the
\* response carries another number of vectors (none, when the field is
\* missing), raises the count error and returns nothing.
C10_EmbeddingsCountGuard ==
    (last.op = "generate_embeddings" /\ last.resp = "ok") =>
        /\ last.n >= 1
        /\ \/ /\ last.exc = "none"
              /\ last.ret = last.body
              /\ Len(last.ret) = last.n
           \/ /\ last.exc = "RuntimeError"
              /\ Len(last.body) # last.n
              /\ last.ret = <<>>

\* C10, its case: a response that carries one vector less than the texts
\* asked for.
C10_Witness ==
    /\ last.op = "generate_embeddings"
    /\ last.resp = "ok"
    /\ last.n >= 2
    /\ Len(last.body) = last.n - 1
    /\ last.exc = "RuntimeError"

\* the lines read that the decoder parsed: the JSON objects
ParsedLines == SelectSeq(gen.wire, LineYields)

\* C11 (as claimed): whatever malformed lines the body holds, and wherever,
\* the stream has yielded one chunk for every valid line read, none for a
\* malformed line, and no pull ends, by an exception or otherwise, because of
\* a line.
C11_MalformedLinesAreSkipped ==
    gen.kind # "none" =>
        /\ Len(gen.chunks) = Len(ParsedLines)
        /\ ~(last.op = "next" /\ last.resp = "line")

\* the contents of the chunks produced, in the order of their production
ChunkContents == [i \in 1..Len(gen.chunks) |-> gen.chunks[i].content]

\* the text fields of the parsed lines, in the order of their arrival
LineTexts == [i \in 1..Len(ParsedLines) |-> ParsedLines[i].text]

\* C12: within one chat or completion stream, the contents of the chunks are
\* the text fields of the parsed lines in the order of their arrival: none is
\* reordered, duplicated or dropped.
C12_ChunksInWireOrder ==
    gen.kind \in StreamKinds => ChunkContents = LineTexts

\* C12, its case: a chat stream of three lines, the second of them malformed,
\* that has produced its two chunks.
C12_Witness ==
    /\ gen.kind = "chat"
    /\ Len(gen.wire) = 3
    /\ gen.wire[2].k = "malformed"
    /\ Len(gen.chunks) = 2
    /\ gen.chunks[1].content # gen.chunks[2].content

TransportFailures == {"client_error", "timeout"}

\* C14 (as claimed): an operation that made a request the transport failed
\* ends with an error of the RuntimeError / OllamaError family: neither with
\* the transport's exception nor with a return value.
C14_TransportFailuresAreWrapped ==
    (last.op \in RequestOps \cup {"next"} /\ last.resp \in TransportFailures)
        => last.exc \in ProviderErrors

\* the attempts at func() and the waits of the call, in order
Calls == SelectSeq(retry.log, LAMBDA e : e.ev = "call")

Sleeps == SelectSeq(retry.log, LAMBDA e : e.ev = "sleep")

\* C15: with max_retries >= 0 and an operation that fails every time with an
\* allow-listed exception, the helper ends having called the operation
\* max_retries + 1 times and waited max_retries times, one wait between two
\* consecutive calls and none after the last, and raises the exception of
\* the last attempt.
C15_AlwaysFailingIsTriedMaxRetriesPlusOne ==
    (/\ retry.at = "done"
     /\ retry.max_retries >= 0
     /\ retry.outcome = "raised"
     /\ retry.value.cls = "listed")
        => /\ Len(Calls) = retry.max_retries + 1
           /\ Len(Sleeps) = retry.max_retries
           /\ Len(retry.log) = 2 * retry.max_retries + 1
           /\ \A i \in 1..Len(retry.log) :
                 retry.log[i].ev = (IF i % 2 = 1 THEN "call" ELSE "sleep")
           /\ retry.value = [cls |-> "listed", attempt |-> retry.max_retries]

\* C15, its case: max_retries = 2 and three failed attempts.
C15_Witness ==
    /\ retry.at = "done"
    /\ retry.max_retries = 2
    /\ retry.outcome = "raised"
    /\ retry.value.cls = "listed"
    /\ Len(Calls) = 3

\* C16: the wait after the failure of attempt a is min(base_delay * 2^a,
\* max_delay): the waits of a call never decrease and none exceeds max_delay.
C16_DelayIsCappedExponential ==
    /\ \A i \in 1..Len(Sleeps) :
          /\ Sleeps[i].attempt = i - 1
          /\ Sleeps[i].delay = Min(retry.base_delay * (2 ^ (i - 1)), retry.max_delay)
          /\ Sleeps[i].delay <= retry.max_delay
    /\ \A i \in 1..(Len(Sleeps) - 1) : Sleeps[i].delay <= Sleeps[i + 1].delay

\* C16, its case: two waits, the first below the cap and the second cut to it.
C16_Witness ==
    /\ Len(Sleeps) = 2
    /\ Sleeps[1].delay < retry.max_delay
    /\ Sleeps[2].delay = retry.max_delay
    /\ retry.base_delay * 2 > retry.max_delay

\* the field invariants of a Configuration, in the order validate() checks
\* them
Checked ==
    <<"base_url", "timeout", "max_retries", "retry_delay", "default_temperature",
      "default_top_p">>

\* a number x with lo <= x, and with x <= hi (nan is neither)
AtLeast(x, lo) == x.t = "num" /\ ~x.nan /\ x.v >= lo

AtMost(x, hi) == x.t = "num" /\ ~x.nan /\ x.v <= hi

\* whether the field satisfies its invariant: base_url non-empty, timeout > 0,
\* max_retries >= 0, retry_delay >= 0, 0.0 <= default_temperature <= 2.0,
\* 0.0 <= default_top_p <= 1.0
Satisfies(c, f) ==
    CASE f = "base_url" -> c.base_url.t = "str" /\ c.base_url.s # ""
      [] f = "timeout" -> AtLeast(c.timeout, 1)
      [] f = "max_retries" -> AtLeast(c.max_retries, 0)
      [] f = "retry_delay" -> AtLeast(c.retry_delay, 0)
      [] f = "default_temperature" ->
            AtLeast(c.default_temperature, 0) /\ AtMost(c.default_temperature, 20)
      [] f = "default_top_p" ->
            AtLeast(c.default_top_p, 0) /\ AtMost(c.default_top_p, 10)

Violations(c) == {i \in 1..Len(Checked) : ~Satisfies(c, Checked[i])}

\* C17 (as claimed): validate() succeeds exactly when every field invariant
\* holds.
C17_ValidateIffInvariants ==
    (cfg.at = "done" /\ cfg.path = "construct")
        => (cfg.exc = "none" <=> Violations(cfg.config) = {})

\* C18 (as claimed): on a Configuration that violates several invariants,
\* validate() fails with the configuration error (ValueError, in the code)
\* that names the first of them in the order of the checks.
C18_FirstViolationIsNamed ==
    (cfg.at = "done" /\ cfg.path = "construct" /\ Cardinality(Violations(cfg.config)) >= 2)
        => /\ cfg.exc = "ValueError"
           /\ \E i \in Violations(cfg.config) :
                 /\ cfg.named = Checked[i]
                 /\ \A j \in Violations(cfg.config) : i <= j

\* the keys of the file load_config has merged
FileKeys == {cfg.file.items[i].key : i \in 1..Len(cfg.file.items)}

\* C19 (as claimed): after the merge of a file, a field the file names has
\* the file's value, a field it does not name has the value from_env() gave
\* it, and a key that names no field has changed nothing.
C19_FileOverridesKnownFieldsOnly ==
    (cfg.at = "done" /\ cfg.path = "load" /\ cfg.file.kind = "object" /\ cfg.named # "env")
        => /\ \A i \in 1..Len(cfg.file.items) :
                 cfg.file.items[i].key \in Fields
                    => cfg.config[cfg.file.items[i].key] = cfg.file.items[i].value
           /\ \A f \in Fields \ FileKeys : cfg.config[f] = cfg.base[f]
           /\ cfg.config.attrs = {}

\* C20 (as claimed): load_config raises, or returns a Configuration that
\* satisfies every field invariant.
C20_LoadedConfigIsValid ==
    (cfg.at = "done" /\ cfg.path = "load" /\ cfg.exc = "none")
        => Violations(cfg.config) = {}

\* C23: an exception of the operation that is not of the allow-listed classes
\* is never caught: the helper raises it at once, the attempt that raised it
\* is the last thing the helper did, and each attempt before it was followed
\* by one wait; this for every max_retries and every attempt.
C23_OtherExceptionPropagatesAtOnce ==
    /\ retry.last_exception.cls # "other"
    /\ retry.at = "sleeping" => retry.last_exception.cls = "listed"
    /\ (retry.at = "done" /\ retry.outcome = "raised" /\ retry.value.cls = "other")
          => /\ retry.log[Len(retry.log)] = Call(retry.value.attempt)
             /\ Len(Calls) = retry.value.attempt + 1
             /\ Len(Sleeps) = retry.value.attempt
             /\ \A i \in 1..Len(Calls) : Calls[i].attempt = i - 1

\* C23, its case: the second attempt of three raises an exception that is
\* not allow-listed.
C23_Witness ==
    /\ retry.at = "done"
    /\ retry.max_retries = 2
    /\ retry.outcome = "raised"
    /\ retry.value = [cls |-> "other", attempt |-> 1]
    /\ Len(Calls) = 2
    /\ Len(Sleeps) = 1

\* C24: every chunk of a chat or completion stream has metadata exactly when
\* its is_final is true: a chunk that is not final has none, and a final
\* chunk has the mapping of the duration and token-count keys (with
\* "context" for a completion), filled from the line the chunk was made of.
C24_MetadataIffFinal ==
    gen.kind \in StreamKinds =>
        /\ Len(gen.chunks) = Len(ParsedLines)
        /\ \A i \in 1..Len(gen.chunks) :
              LET chunk == gen.chunks[i]
                  line == ParsedLines[i]
              IN  /\ chunk.metadata.present <=> chunk.is_final
                  /\ chunk.is_final <=> line.done
                  /\ chunk.is_final
                        => /\ chunk.metadata.keys = MetadataKeys(gen.kind)
                           /\ {"total_duration", "eval_count"} \subseteq chunk.metadata.keys
                           /\ chunk.metadata.line = line.text
                  /\ ~chunk.is_final => chunk.metadata = NoMetadata

\* C24, its case: a completion stream that has yielded a chunk that is not
\* final and then a final chunk.
C24_Witness ==
    /\ gen.kind = "completion"
    /\ Len(gen.chunks) = 2
    /\ ~gen.chunks[1].is_final
    /\ ~gen.chunks[1].metadata.present
    /\ gen.chunks[2].is_final
    /\ "context" \in gen.chunks[2].metadata.keys

\* the two methods that return a stream
StreamOps == {"generate_chat", "generate_completion"}

\* the step hands a request of a stream to the transport: a pull that goes
\* on to read the body, or that ends on the answer
IssuesStreamRequest ==
    /\ Idle(Main)
    /\ \/ pc'[Main].at = "reading" /\ pc'[Main].requests >= 1
       \/ Idle(Main)' /\ last' # last /\ last'.op = "next" /\ last'.requests >= 1

\* C25: when generate_chat or generate_completion returns a stream, no
\* request has been made and no line of the generator has run; a request of
\* a stream is made only by the first pull of a generator; and a pull of a
\* generator that is exhausted or has raised ends with StopAsyncIteration,
\* yields no chunk, makes no request and leaves the generator as it is.
C25_StreamIsLazyAndSinglePass ==
    /\ []((Idle(Main) /\ last.op \in StreamOps /\ last.val = "generator")
            => /\ last.requests = 0
               /\ gen.kind \in StreamKinds
               /\ gen.st = "new"
               /\ gen.h = None
               /\ gen.wire = <<>>
               /\ gen.chunks = <<>>)
    /\ [][IssuesStreamRequest
            => (gen.st = "new" /\ gen.wire = <<>> /\ session # None)]_vars
    /\ [][(gen.st = "finished" /\ last' # last /\ last'.op = "next")
            => /\ last'.exc = "StopAsyncIteration"
               /\ last'.val = "none"
               /\ last'.requests = 0
               /\ gen' = gen]_vars

\* C25, its case: a chat stream that has yielded a chunk and ended is pulled
\* once more.
C25_Witness ==
    /\ gen.kind = "chat"
    /\ gen.st = "finished"
    /\ Len(gen.chunks) >= 1
    /\ last.op = "next"
    /\ last.exc = "StopAsyncIteration"
    /\ last.resp = "none"
    /\ last.requests = 0

\* C26 (as claimed): in every state that concurrent initialize() and close()
\* calls can reach, is_available = true implies that the provider holds a
\* handle.
C26_AvailableImpliesHandle ==
    is_available => session # None

\* the operations other than initialize() and close(); "next" is a pull
\* from a generator that generate_chat, generate_completion or pull_model
\* returned
OtherOps ==
    {"list_models", "generate_chat", "generate_completion", "generate_embeddings",
     "pull_model", "delete_model", "get_model_info", "list_running_models",
     "health_check", "is_model_available", "next"}

\* the lifecycle state of the provider: the handle it references, the
\* handles it created with their close() calls, is_available, and base_url,
\* timeout and keep_alive
Lifecycle == <<session, handles, is_available, settings>>

\* C27: a step of an operation other than initialize() and close(), one
\* that ends the operation with a value or an exception or one that goes on
\* reading a stream, leaves the handle, is_available, base_url, timeout and
\* keep_alive as they were.
C27_OnlyInitializeAndCloseChangeLifecycle ==
    [][(/\ pc[Main].at \in {"idle", "reading"}
        /\ \/ pc'[Main].at = "reading"
           \/ Idle(Main)' /\ last'.op \in OtherOps)
       => UNCHANGED Lifecycle]_vars

\* C27, its case: health_check has failed on a provider that is ready, and
\* the provider is still ready.
C27_Witness ==
    /\ last.op = "health_check"
    /\ last.val = "unhealthy"
    /\ last.requests = 1
    /\ is_available
    /\ session # None
    /\ ~Closed(session)

\* C30 (as claimed): for every text, max_chunk_size >= 1 and overlap >= 0,
\* the loop of chunk_text_for_embeddings moves start forward at each
\* iteration and makes at most len(text) iterations, every chunk returned
\* is non-empty and at most max_chunk_size characters long, and a text of at
\* most max_chunk_size characters is returned as the one chunk.
C30_ChunkingTerminatesWithBoundedChunks ==
    /\ [](/\ chunker.iterations <= Len(chunker.text)
          /\ chunker.at = "loop" => chunker.start >= chunker.iterations
          /\ chunker.at = "done"
                => /\ \A i \in 1..Len(chunker.chunks) :
                         /\ chunker.chunks[i] # <<>>
                         /\ Len(chunker.chunks[i]) <= chunker.max_chunk_size
                   /\ Len(chunker.text) <= chunker.max_chunk_size
                         => chunker.chunks = <<chunker.text>>)
    /\ [][(chunker.at = "loop" /\ chunker'.iterations # chunker.iterations)
            => chunker'.start > chunker.start]_vars

\* C28: when the operation succeeds for the first time on attempt k, after k
\* allow-listed failures, the helper returns that result having called the
\* operation k + 1 times and waited k times, one wait after each failure,
\* and the successful call is the last thing it did.
C28_SuccessAfterKFailures ==
    (retry.at = "done" /\ retry.outcome = "returned")
        => /\ retry.value.cls = "result"
           /\ Len(Calls) = retry.value.attempt + 1
           /\ Len(Sleeps) = retry.value.attempt
           /\ Len(retry.log) = 2 * retry.value.attempt + 1
           /\ \A i \in 1..Len(retry.log) :
                 retry.log[i].ev = IF i % 2 = 1 THEN "call" ELSE "sleep"
           /\ \A i \in 1..Len(Calls) : Calls[i].attempt = i - 1
           /\ retry.value.attempt > 0
                 => retry.last_exception = [cls |-> "listed", attempt |-> retry.value.attempt - 1]

\* C28, its case: the operation fails twice and succeeds on the third
\* attempt.
C28_Witness ==
    /\ retry.at = "done"
    /\ retry.outcome = "returned"
    /\ retry.value = [cls |-> "result", attempt |-> 2]
    /\ Len(Calls) = 3
    /\ Len(Sleeps) = 2

\* C29 (as claimed): for every max_retries, negative ones included, the
\* helper calls the operation at least once, and an exception it raises is
\* one the operation raised.
C29_AtLeastOneCallAndOwnException ==
    retry.at = "done"
        => /\ Len(Calls) >= 1
           /\ retry.outcome = "raised" => retry.value.cls \in {"listed", "other"}

\* the keys of "options" that stand for fields of ModelParameters
OptionKeys == {"temperature", "top_p", "top_k", "seed", "stop"}

\* whether the caller set the field behind the key: passed it, and for the
\* stop sequences passed at least one
SetByCaller(key) ==
    CASE key = "stop" -> req.kw.stop_sequences.passed /\ req.kw.stop_sequences.v.v # <<>>
      [] OTHER -> req.kw[key].passed

\* C21 (as claimed): the payload's options hold the key of a field exactly
\* when the caller set the field, also with the value of the default, and
\* "options" is in the payload exactly when it holds a key.
C21_OptionsHoldWhatTheCallerSet ==
    req.at = "built" =>
        /\ \A key \in OptionKeys : key \in DOMAIN req.payload.options <=> SetByCaller(key)
        /\ req.payload.has_options <=> DOMAIN req.payload.options # {}

\* the role values of the wire format
WireRoles == [SYSTEM |-> "system", USER |-> "user", ASSISTANT |-> "assistant", TOOL |-> "tool"]

\* C22: the "messages" array of generate_chat's payload has the length and
\* the order of the message list, and its i-th message carries the role value
\* and the content of the i-th message.
C22_MessagesKeepOrderRoleContent ==
    (req.at = "built" /\ req.op = "generate_chat") =>
        /\ Len(req.payload.messages) = Len(req.messages)
        /\ \A i \in 1..Len(req.messages) :
              /\ req.payload.messages[i]["role"] = WireRoles[req.messages[i].role]
              /\ req.payload.messages[i]["content"] = req.messages[i].content

\* C22, its case: a list of two messages, a tool message after a system
\* message.
C22_Witness ==
    /\ req.at = "built"
    /\ req.op = "generate_chat"
    /\ Len(req.messages) = 2
    /\ req.messages[1].role = "SYSTEM"
    /\ req.messages[2].role = "TOOL"
    /\ req.payload.messages[2]["role"] = "tool"
====
